---- MODULE Spec2Model ----
(***************************************************************************)
(* Model of the AlphaVantage data-lake pipeline.                           *)
(*                                                                         *)
(* Three scripts are modelled:                                             *)
(*   FranciscoPremuz_ingestion.py       bronze ingestion   (deploy "tp")   *)
(*   FranciscoPremuz_transformations.py bronze->silver->gold (deploy "tp") *)
(*   main.py                            whole pipeline   (deploy "main")   *)
(* The two deployments use disjoint table paths, so a behaviour runs one   *)
(* of them: Spec is the "tp" deployment, SpecMain is main.py, and          *)
(* SpecClean runs the silver crypto step alone on arbitrary valid frames.  *)
(*                                                                         *)
(* A crypto row is [datetime, close]: datetime is the merge key and the    *)
(* ordering column, close stands for the value columns.  An FX row is      *)
(* [exchange_rate].  A Delta table is [exists, rows], rows being the bag   *)
(* of its rows (a Delta table has no row order); a dataframe is a          *)
(* sequence of rows.                                                       *)
(***************************************************************************)
EXTENDS Integers, Sequences, FiniteSets, Bags, TLC

\* pd.to_datetime(..., errors="coerce") yields NaT for a malformed date
NaT == 0
\* pd.to_numeric(..., errors="coerce") yields NaN for a malformed number
NaN == -1

\* bounds of the model
MaxDate == 2
MaxBatch == 1
MaxRuns == 2
MaxLen == 3

Dates == 1 .. MaxDate
ValidCloses == {1, 2}
RawCloses == {0} \cup ValidCloses
Rates == {1, 2}

Backends == {"remote", "local"}
Tables == {"bronze_crypto", "bronze_fx", "silver_crypto", "silver_fx",
           "gold_crypto", "gold_fx"}

ABSENT == [exists |-> FALSE, rows |-> EmptyBag]

VARIABLES
    deploy,   \* "tp" (ingestion.py + transformations.py) or "main" (main.py)
    focus,    \* the endpoint whose answers vary in this behaviour
    minio,    \* storage.conf has a [minio] section
    faulty,   \* storage calls may fail in this behaviour
    store,    \* store[backend][table]: the Delta tables
    pc,       \* position of the running script, "idle" between runs
    mem,      \* the running script's dataframes
    run,      \* what the current (or last) run executed and how it ended
    last,     \* the last bronze write step: its path and the calls it issued
    runs,     \* number of transformation runs started
    columns   \* the column names being disambiguated, and the result

vars == <<deploy, focus, minio, faulty, store, pc, mem, run, last, runs, columns>>

(***************************************************************************)
(* Sequence helpers                                                        *)
(***************************************************************************)
Range(s) == {s[i] : i \in 1 .. Len(s)}

Front(s) == SubSeq(s, 1, Len(s) - 1)

Last(s) == s[Len(s)]

\* sort key of the datetime column: NaT sorts last (na_position="last")
SortKey(d) == IF d = NaT THEN MaxDate + 2 ELSE d

RECURSIVE InsertSorted(_, _)
InsertSorted(s, x) ==
    IF s = <<>> THEN <<x>>
    ELSE IF SortKey(Last(s).datetime) <= SortKey(x.datetime)
         THEN Append(s, x)
         ELSE Append(InsertSorted(Front(s), x), Last(s))

\* df.sort_values("datetime")
RECURSIVE SortByDatetime(_)
SortByDatetime(s) ==
    IF s = <<>> THEN <<>>
    ELSE InsertSorted(SortByDatetime(Front(s)), Last(s))

\* a deduplication that keeps the first row of a key; C7 does not hold of it
DropDuplicatesFirst(s) ==
    LET keep(i) == \A j \in 1 .. (i - 1) : s[j].datetime # s[i].datetime
    IN SelectSeq([i \in 1 .. Len(s) |-> IF keep(i) THEN s[i] ELSE <<>>],
                 LAMBDA x : x # <<>>)

\* df.drop_duplicates(subset=["datetime"], keep="last"): NaT equals NaT here
DropDuplicatesLast(s) ==
    LET keep(i) == \A j \in (i + 1) .. Len(s) : s[j].datetime # s[i].datetime
        idx == {i \in 1 .. Len(s) : keep(i)}
        RECURSIVE take(_)
        take(i) == IF i > Len(s) THEN <<>>
                   ELSE IF i \in idx THEN <<s[i]>> \o take(i + 1)
                   ELSE take(i + 1)
    IN take(1)

\* the rows of a dataframe as the contents of a table
BagOfSeq(s) ==
    [r \in Range(s) |-> Cardinality({i \in 1 .. Len(s) : s[i] = r})]

Populated(df) == [exists |-> TRUE, rows |-> BagOfSeq(df)]

\* rank of a row in the order in which a table's rows are read back
RowRank(r) ==
    IF "datetime" \in DOMAIN r
    THEN SortKey(r.datetime) * (3 + Cardinality(ValidCloses)) + r.close + 1
    ELSE r.exchange_rate

RECURSIVE Copies(_, _)
Copies(r, n) == IF n = 0 THEN <<>> ELSE <<r>> \o Copies(r, n - 1)

\* DeltaTable(path).to_pandas(): the rows of the table as a dataframe
RECURSIVE to_pandas(_)
to_pandas(bag) ==
    IF DOMAIN bag = {} THEN <<>>
    ELSE LET m == CHOOSE x \in DOMAIN bag :
                    \A y \in DOMAIN bag : RowRank(x) <= RowRank(y)
             rest == [r \in DOMAIN bag \ {m} |-> bag[r]]
         IN Copies(m, bag[m]) \o to_pandas(rest)

(***************************************************************************)
(* Upstream responses                                                      *)
(***************************************************************************)
RawRows == [datetime : {NaT} \cup Dates, close : RawCloses]

\* the keys of a JSON object are distinct date strings: two rows of a
\* series share a datetime only when both failed to parse (NaT)
UniqueKeys(S) ==
    \A a, b \in S : (a # b /\ a.datetime = b.datetime) => a.datetime = NaT

RECURSIVE SetToSeq(_)
SetToSeq(S) ==
    IF S = {} THEN <<>>
    ELSE LET m == CHOOSE x \in S : \A y \in S : RowRank(x) <= RowRank(y)
         IN <<m>> \o SetToSeq(S \ {m})

RECURSIVE SubsetsUpTo(_, _)
SubsetsUpTo(S, n) ==
    IF n = 0 THEN {{}}
    ELSE LET smaller == SubsetsUpTo(S, n - 1)
         IN smaller \cup {T \cup {x} : T \in smaller, x \in S}

\* the "Time Series ..." object of a DIGITAL_CURRENCY_DAILY response
SeriesPayloads ==
    {SetToSeq(S) : S \in {T \in SubsetsUpTo(RawRows, MaxBatch) : UniqueKeys(T)}}

\* the one-row series served while the exchange rate is in focus
FixedPayload == <<[datetime |-> 1, close |-> 1]>>

\* get_data() returns None, a mapping without the expected key, or the data.
\* To keep the two endpoints from multiplying, a behaviour varies the
\* answers of one endpoint: with the daily series in focus the rate
\* endpoint gives no data, with the rate in focus the series is fixed.
CryptoResponses ==
    {[kind |-> "none", rows |-> <<>>], [kind |-> "nokey", rows |-> <<>>]}
    \cup {[kind |-> "series", rows |-> p] :
            p \in IF focus = "crypto" THEN SeriesPayloads ELSE {FixedPayload}}

FxResponses ==
    IF focus = "crypto" THEN {[kind |-> "none", rate |-> 0]}
    ELSE {[kind |-> "none", rate |-> 0], [kind |-> "nokey", rate |-> 0]}
         \cup {[kind |-> "rate", rate |-> r] : r \in Rates}

(***************************************************************************)
(* Dataframe shaping of the bronze layer                                   *)
(***************************************************************************)
\* build_dynamic_table: None without a "Time Series" key, else the rows
\* sorted by datetime
build_dynamic_table(resp) ==
    IF resp.kind = "series"
    THEN [none |-> FALSE, rows |-> SortByDatetime(resp.rows)]
    ELSE [none |-> TRUE, rows |-> <<>>]

\* ingestion.py: dropna(subset=["datetime", "close"]) then close > 0
CleanDynamic(rows) ==
    SelectSeq(rows, LAMBDA r : r.datetime # NaT /\ r.close # NaN /\ r.close > 0)

\* build_static_table / remove_duplicate_columns: one row holding the rate
build_static_table(resp) ==
    IF resp.kind = "rate"
    THEN [none |-> FALSE, rows |-> <<[exchange_rate |-> resp.rate]>>]
    ELSE [none |-> TRUE, rows |-> <<>>]

(***************************************************************************)
(* Column names.  A name is the sequence of the parts that "_" joins:      *)
(* <<"a", "1">> is "a_1"                                                   *)
(***************************************************************************)
MaxCols == 3

\* the names a column can carry before it is disambiguated
Words == {<<"a">>, <<"A">>, <<"a", "1">>, <<"a", "dup">>}

\* str.lower()
Lower(part) == IF part = "A" THEN "a" ELSE part

\* a key of the rate object: a numbering, a space, the words
RawKey(i, words) == <<ToString(i)>> \o words

\* "_".join(c.split(" ")[1:]).lower(): the numbering is dropped
ColName(c) == [i \in 1 .. (Len(c) - 1) |-> Lower(c[i + 1])]

\* while col_name in seen: col_name = f"{base_name}_{counter}"; counter += 1
RECURSIVE FreeName(_, _, _, _)
FreeName(base_name, col_name, counter, seen) ==
    IF col_name \in seen
    THEN FreeName(base_name, base_name \o <<ToString(counter)>>, counter + 1, seen)
    ELSE col_name

\* build_static_table: the loop that fills new_columns
RECURSIVE new_columns(_, _)
new_columns(cols, seen) ==
    IF cols = <<>> THEN <<>>
    ELSE LET base_name == ColName(Head(cols))
             col_name == FreeName(base_name, base_name, 1, seen)
         IN <<col_name>> \o new_columns(Tail(cols), seen \cup {col_name})

\* remove_duplicate_columns: a name seen before gets the suffix "_dup";
\* only unsuffixed names are added to seen
RECURSIVE remove_duplicate_columns(_, _)
remove_duplicate_columns(cols, seen) ==
    IF cols = <<>> THEN <<>>
    ELSE LET c == Head(cols)
         IN IF c \notin seen
            THEN <<c>> \o remove_duplicate_columns(Tail(cols), seen \cup {c})
            ELSE <<c \o <<"dup">> >> \o remove_duplicate_columns(Tail(cols), seen)

NoColumns == [names |-> <<>>, output |-> <<>>, by |-> "none"]

(***************************************************************************)
(* Delta Lake operations                                                   *)
(***************************************************************************)
WriteModes == {"error", "append", "overwrite", "ignore"}

\* write_deltalake(path, df, mode=mode): an unknown mode is rejected
WriteDeltalake(table, df, mode) ==
    [table |->
        CASE mode = "overwrite" -> Populated(df)
          [] mode = "append" ->
                [exists |-> TRUE, rows |-> table.rows (+) BagOfSeq(df)]
          [] mode \in {"error", "ignore"} /\ ~table.exists -> Populated(df)
          [] OTHER -> table,
     raised |-> mode \notin WriteModes \/ (mode = "error" /\ table.exists)]

\* a predicate under which two nulls are equal; C9 does not hold of it
MatchesNullEqual(t, s) == t.datetime = s.datetime

\* the merge predicate "target.datetime = source.datetime": a comparison
\* with a null is never true
Matches(t, s) ==
    t.datetime # NaT /\ s.datetime # NaT /\ t.datetime = s.datetime

\* a merge without its when_matched_update_all clause; C4 does not hold of it
DeltaMergeInsertOnly(table, source) ==
    LET target == to_pandas(table.rows)
        inserted == SelectSeq(source,
                      LAMBDA s : \A i \in 1 .. Len(target) : ~Matches(target[i], s))
    IN Populated(target \o inserted)

\* dt.merge(...).when_matched_update_all().when_not_matched_insert_all()
DeltaMerge(table, source) ==
    LET target == to_pandas(table.rows)
        hit(t) == {j \in 1 .. Len(source) : Matches(t, source[j])}
        updated == [i \in 1 .. Len(target) |->
                      IF hit(target[i]) = {} THEN target[i]
                      ELSE source[CHOOSE j \in hit(target[i]) : TRUE]]
        inserted == SelectSeq(source,
                      LAMBDA s : \A i \in 1 .. Len(target) : ~Matches(target[i], s))
    IN Populated(updated \o inserted)

\* a save that ignores its mode and appends; C8 does not hold of it
save_data_as_deltaAppend(table, df, mode) == WriteDeltalake(table, df, "append")

\* save_data_as_delta
save_data_as_delta(table, df, mode) == WriteDeltalake(table, df, mode)

\* upsert_data_as_delta: merge, or overwrite on TableNotFoundError
upsert_data_as_delta(table, data) ==
    IF table.exists
    THEN [table |-> DeltaMerge(table, data),
          calls |-> <<"merge">>, raised |-> FALSE]
    ELSE LET w == save_data_as_delta(table, data, "overwrite")
         IN [table |-> w.table, calls |-> <<"overwrite">>, raised |-> w.raised]

\* ingestion.py __main__: the dynamic endpoint's upsert
CryptoUpsertTp(table, df) ==
    IF table.exists
    THEN [table |-> DeltaMerge(table, df),
          calls |-> <<"merge">>, raised |-> FALSE]
    ELSE LET w == WriteDeltalake(table, df, "overwrite")
         IN [table |-> w.table, calls |-> <<"overwrite">>, raised |-> w.raised]

\* main.py __main__: the crypto_daily upsert; on TableNotFoundError an
\* overwrite and then a second write_deltalake with mode="merge"
CryptoUpsertMain(table, df) ==
    IF table.exists
    THEN [table |-> DeltaMerge(table, df),
          calls |-> <<"merge">>, raised |-> FALSE]
    ELSE LET w1 == WriteDeltalake(table, df, "overwrite")
             w2 == WriteDeltalake(w1.table, df, "merge")
         IN [table |-> w2.table, calls |-> <<"overwrite", "merge">>,
             raised |-> w1.raised \/ w2.raised]

(***************************************************************************)
(* State                                                                   *)
(***************************************************************************)
\* ingestion.py and main.py use the bucket when storage_options is set
Backend == IF minio THEN "remote" ELSE "local"

None == [none |-> TRUE, rows |-> <<>>]

Frame(rows) == [none |-> FALSE, rows |-> rows]

NoMem == [df_crypto |-> None, df_fx |-> None, df |-> None, df_fx_s |-> None]

NoLast == [op |-> "none", calls |-> <<>>]

\* a run: the script, the tables whose step it executed, how it ended, the
\* tables a storage call failed on, the tables whose failure reached the
\* script as an exception, and the backend each read and write used
NoRun == [script |-> "none", ran |-> {}, end |-> "ok",
          failed |-> {}, surfaced |-> {}, used |-> {}]

NewRun(script) == [script |-> script, ran |-> {}, end |-> "running",
                   failed |-> {}, surfaced |-> {}, used |-> {}]

\* the state shared by both deployments before any script has run
Fresh ==
    /\ focus \in {"crypto", "fx"}
    /\ minio \in BOOLEAN
    /\ faulty = FALSE
    /\ store = [b \in Backends |-> [t \in Tables |-> ABSENT]]
    /\ pc = "idle"
    /\ mem = NoMem
    /\ run = NoRun
    /\ last = NoLast
    /\ runs = 0
    /\ columns = NoColumns

\* ingestion.py and transformations.py, run one after the other in any order
Init == deploy = "tp" /\ Fresh

\* main.py, the whole pipeline in one script
InitMain == deploy = "main" /\ Fresh

SetTable(st, b, t, table) == [st EXCEPT ![b][t] = table]

\* the rows of a table whose key is null, and their number
NaTRows(table) ==
    [r \in {x \in DOMAIN table.rows : x.datetime = NaT} |-> table.rows[r]]

NaTCount(table) == BagCardinality(NaTRows(table))

(***************************************************************************)
(* Bronze ingestion: ingestion.py (deploy "tp") and main.py ("main")       *)
(***************************************************************************)
\* a storage call on table t that raised, op being "read" or "write"
Fail(t, op) == [table |-> t, op |-> op]

Fails(t, readFailed, writeFailed) ==
    (IF readFailed THEN {Fail(t, "read")} ELSE {})
    \cup (IF writeFailed THEN {Fail(t, "write")} ELSE {})

\* outcomes of a storage call: it answers, or (in a faulty behaviour) it
\* raises an exception other than TableNotFoundError
Up == IF faulty THEN BOOLEAN ELSE {TRUE}

\* the dynamic endpoint block of a script: fetch, shape, upsert
CryptoStep(resp, next, script, up) ==
    LET built == build_dynamic_table(resp)
        df == IF script = "ingestion" THEN CleanDynamic(built.rows) ELSE built.rows
        pre == store[Backend]["bronze_crypto"]
        u == IF script = "ingestion" THEN CryptoUpsertTp(pre, df)
             ELSE CryptoUpsertMain(pre, df)
    IN CASE resp.kind = "none" ->
              \* "if data_dynamic:" is false, the block is skipped
              /\ pc' = next
              /\ run' = NewRun(script)
              /\ last' = NoLast
              /\ UNCHANGED store
         [] resp.kind = "nokey" ->
              \* build_dynamic_table returned None: the next statement raises
              /\ pc' = "done"
              /\ run' = [NewRun(script) EXCEPT !.end = "crash"]
              /\ last' = [op |-> "nokey", calls |-> <<>>]
              /\ UNCHANGED store
         [] ~up ->
              \* DeltaTable or merge raises; only TableNotFoundError is caught
              /\ pc' = "done"
              /\ run' = [NewRun(script) EXCEPT !.end = "crash",
                                               !.failed = {Fail("bronze_crypto", "write")},
                                               !.surfaced = {Fail("bronze_crypto", "write")}]
              /\ last' = NoLast
              /\ UNCHANGED store
         [] OTHER ->
              /\ store' = SetTable(store, Backend, "bronze_crypto", u.table)
              /\ last' = [op |-> IF pre.exists THEN "merge" ELSE "bootstrap",
                          calls |-> u.calls]
              /\ IF u.raised
                 THEN /\ pc' = "done"
                      /\ run' = [NewRun(script) EXCEPT !.end = "crash"]
                 ELSE /\ pc' = next
                      /\ run' = [NewRun(script) EXCEPT !.ran = {"bronze_crypto"}]

\* the static endpoint block of a script: fetch, shape, overwrite
FxStep(resp, next, up) ==
    LET built == build_static_table(resp)
        pre == store[Backend]["bronze_fx"]
        w == save_data_as_delta(pre, built.rows, "overwrite")
    IN CASE resp.kind = "none" ->
              /\ pc' = next
              /\ run' = [run EXCEPT !.end = IF next = "done" THEN "ok" ELSE @]
              /\ last' = NoLast
              /\ UNCHANGED store
         [] resp.kind = "nokey" ->
              \* ingestion.py: remove_duplicate_columns(None) raises;
              \* main.py: data["Realtime Currency Exchange Rate"] raises
              /\ pc' = "done"
              /\ run' = [run EXCEPT !.end = "crash"]
              /\ last' = [op |-> "nokey", calls |-> <<>>]
              /\ UNCHANGED store
         [] ~up ->
              \* write_deltalake raises and nothing catches it
              /\ pc' = "done"
              /\ run' = [run EXCEPT !.end = "crash",
                                    !.failed = @ \cup {Fail("bronze_fx", "write")},
                                    !.surfaced = @ \cup {Fail("bronze_fx", "write")}]
              /\ last' = NoLast
              /\ UNCHANGED store
         [] OTHER ->
              /\ store' = SetTable(store, Backend, "bronze_fx", w.table)
              /\ last' = [op |-> "overwrite", calls |-> <<"overwrite">>]
              /\ pc' = next
              /\ run' = [run EXCEPT !.ran = @ \cup {"bronze_fx"},
                                    !.end = IF next = "done" THEN "ok" ELSE @]

\* ingestion.py: dynamic endpoint
IngestCrypto ==
    /\ deploy = "tp" /\ pc = "idle"
    /\ \E resp \in CryptoResponses, up \in Up :
         CryptoStep(resp, "ing_fx", "ingestion", up)
    /\ UNCHANGED <<deploy, focus, minio, faulty, columns, mem, runs>>

\* ingestion.py: static endpoint, then the script ends
IngestFx ==
    /\ deploy = "tp" /\ pc = "ing_fx"
    /\ \E resp \in FxResponses, up \in Up : FxStep(resp, "done", up)
    /\ UNCHANGED <<deploy, focus, minio, faulty, columns, mem, runs>>

(***************************************************************************)
(* transformations.py: storage helpers                                     *)
(***************************************************************************)
\* safe_read_delta: the bucket first when configured, any exception falls
\* through to the local path; None when neither can be read
safe_read_delta(st, t, up) ==
    IF minio /\ up /\ st["remote"][t].exists
    THEN Frame(to_pandas(st["remote"][t].rows))
    ELSE IF st["local"][t].exists
         THEN Frame(to_pandas(st["local"][t].rows))
         ELSE None

\* the backend safe_read_delta returned the table from, "none" for None
ReadBackend(st, t, up) ==
    IF minio /\ up /\ st["remote"][t].exists THEN "remote"
    ELSE IF st["local"][t].exists THEN "local"
    ELSE "none"

\* the read of the bucket raised for a reason other than a missing table
ReadFails(up) == minio /\ ~up

ReadUse(st, t, up) ==
    IF ReadBackend(st, t, up) = "none" THEN {}
    ELSE {[table |-> t, op |-> "read", backend |-> ReadBackend(st, t, up)]}

\* write_delta: the bucket when configured; on any exception, and when no
\* bucket is configured, the local path, whose failure is only printed
write_delta(st, t, df, mode, up, localUp) ==
    LET r == WriteDeltalake(st["remote"][t], df, mode)
        l == WriteDeltalake(st["local"][t], df, mode)
    IN IF minio /\ up /\ ~r.raised
       THEN SetTable(st, "remote", t, r.table)
       ELSE IF localUp /\ ~l.raised
            THEN SetTable(st, "local", t, l.table)
            ELSE st

\* the backend write_delta wrote to, "none" when both writes raised
WriteBackend(up, localUp) ==
    IF minio /\ up THEN "remote" ELSE IF localUp THEN "local" ELSE "none"

\* a write_deltalake call of write_delta raised
WriteFails(up, localUp) == (minio /\ ~up) \/ (~(minio /\ up) /\ ~localUp)

WriteUse(t, up, localUp) ==
    IF WriteBackend(up, localUp) = "none" THEN {}
    ELSE {[table |-> t, op |-> "write", backend |-> WriteBackend(up, localUp)]}

\* what the caller of safe_read_delta gets: a dataframe or None, on every
\* path; what the caller of write_delta gets: None, on every path
ReadOutcome(st, t, up) == IF safe_read_delta(st, t, up).none THEN "None" ELSE "dataframe"

WriteOutcome(up, localUp) == "None"

\* the tables of a step whose storage failure the helpers passed on to the
\* caller as something other than their normal returns
Surfaced(t, readOutcomes, writeOutcomes) ==
    Fails(t, ~(readOutcomes \subseteq {"None", "dataframe"}),
             ~(writeOutcomes \subseteq {"None"}))

(***************************************************************************)
(* transformations.py: silver and gold dataframes                          *)
(***************************************************************************)
\* df["datetime"].max(): NaT of an empty column
MaxDatetime(rows) ==
    LET ds == {rows[i].datetime : i \in 1 .. Len(rows)} \ {NaT}
    IN IF ds = {} THEN NaT ELSE CHOOSE d \in ds : \A e \in ds : e <= d

\* a step without the watermark filter; C2 does not hold of it
IncrementalFilterNone(df, prev) == df

\* a filter that also lets the watermark's own date through; C6 does not
\* hold of it
IncrementalFilterGeq(df, prev) ==
    IF prev.none THEN df
    ELSE LET max_dt == MaxDatetime(prev.rows)
         IN SelectSeq(df, LAMBDA r :
                r.datetime # NaT /\ max_dt # NaT /\ r.datetime >= max_dt)

\* df[df["datetime"] > max_dt]: a comparison with NaT is False
IncrementalFilter(df, prev) ==
    IF prev.none THEN df
    ELSE LET max_dt == MaxDatetime(prev.rows)
         IN SelectSeq(df, LAMBDA r :
                r.datetime # NaT /\ max_dt # NaT /\ r.datetime > max_dt)

\* df[num_cols].ffill(): a missing close takes the previous row's value
RECURSIVE FFill(_)
FFill(s) ==
    IF Len(s) <= 1 THEN s
    ELSE LET f == FFill(Front(s))
             x == Last(s)
         IN IF x.close = NaN
            THEN Append(f, [x EXCEPT !.close = Last(f).close])
            ELSE Append(f, x)

\* .bfill(): a close still missing takes the next row's value
RECURSIVE BFill(_)
BFill(s) ==
    IF Len(s) <= 1 THEN s
    ELSE LET b == BFill(Tail(s))
             x == Head(s)
         IN IF x.close = NaN
            THEN <<[x EXCEPT !.close = Head(b).close]>> \o b
            ELSE <<x>> \o b

\* dt.to_period("M"): two consecutive dates share a month
Month(d) == (d + 1) \div 2

\* the silver crypto cleaning of the rows that passed the watermark filter
SilverClean(df) ==
    LET dedup == SortByDatetime(DropDuplicatesLast(df))
        dated == SelectSeq(dedup, LAMBDA r : r.datetime # NaT)
        filled == BFill(FFill(dated))
        priced == SelectSeq(filled, LAMBDA r : r.close # NaN /\ r.close > 0)
        cols == [i \in 1 .. Len(priced) |->
                   [datetime |-> priced[i].datetime, close |-> priced[i].close,
                    month |-> Month(priced[i].datetime)]]
    IN DropDuplicatesLast(cols)

RECURSIVE SumClose(_)
SumClose(s) == IF s = <<>> THEN 0 ELSE Head(s).close + SumClose(Tail(s))

RECURSIVE GCD(_, _)
GCD(a, b) == IF b = 0 THEN a ELSE GCD(b, a % b)

\* the mean of a group, as a reduced fraction
Mean(total, n) == <<total \div GCD(total, n), n \div GCD(total, n)>>

\* groupby("month").agg(mean, max, min): one row per month, by month
RECURSIVE MonthlySummary(_, _)
MonthlySummary(rows, months) ==
    IF months = {} THEN <<>>
    ELSE LET m == CHOOSE x \in months : \A y \in months : x <= y
             grp == SelectSeq(rows, LAMBDA r : r.month = m)
             cl == {grp[i].close : i \in 1 .. Len(grp)}
         IN <<[month |-> m,
               avg_close |-> Mean(SumClose(grp), Len(grp)),
               max_close |-> CHOOSE c \in cl : \A e \in cl : e <= c,
               min_close |-> CHOOSE c \in cl : \A e \in cl : c <= e]>>
            \o MonthlySummary(rows, months \ {m})

\* drop_duplicates(subset=["month"], keep="last")
DropDuplicateMonths(s) ==
    SelectSeq([i \in 1 .. Len(s) |->
                 [row |-> s[i],
                  keep |-> \A j \in (i + 1) .. Len(s) : s[j].month # s[i].month]],
              LAMBDA x : x.keep)

GoldCrypto(silver) ==
    LET g == MonthlySummary(silver, {silver[i].month : i \in 1 .. Len(silver)})
        d == DropDuplicateMonths(g)
    IN [i \in 1 .. Len(d) |-> d[i].row]

\* drop_duplicates(): a row equal to an earlier one is dropped
DropDuplicateRows(s) ==
    LET keep == [i \in 1 .. Len(s) |->
                   [row |-> s[i], keep |-> \A j \in 1 .. (i - 1) : s[j] # s[i]]]
        kept == SelectSeq(keep, LAMBDA x : x.keep)
    IN [i \in 1 .. Len(kept) |-> kept[i].row]

\* df.tail(1)
Tail1(s) == IF s = <<>> THEN <<>> ELSE <<Last(s)>>

\* drop_duplicates(subset=["last_refreshed"], keep="last") of the FX frame
DropDuplicateFx(s) ==
    LET keep == [i \in 1 .. Len(s) |->
                   [row |-> s[i],
                    keep |-> \A j \in (i + 1) .. Len(s) : s[j] # s[i]]]
        kept == SelectSeq(keep, LAMBDA x : x.keep)
    IN [i \in 1 .. Len(kept) |-> kept[i].row]

(***************************************************************************)
(* transformations.py: the script, one action per read or write step       *)
(***************************************************************************)
\* "LECTURA DESDE BRONZE": both bronze tables are read; without the crypto
\* table the script prints a hint and calls exit(0)
ReadBronze ==
    /\ deploy = "tp" /\ pc = "idle" /\ runs < MaxRuns
    /\ runs' = runs + 1
    /\ \E up1 \in Up, up2 \in Up :
         LET df_crypto == safe_read_delta(store, "bronze_crypto", up1)
             df_fx == safe_read_delta(store, "bronze_fx", up2)
             r == [NewRun("transformations") EXCEPT
                      !.failed = Fails("bronze_crypto", ReadFails(up1), FALSE)
                                 \cup Fails("bronze_fx", ReadFails(up2), FALSE),
                      !.surfaced =
                          Surfaced("bronze_crypto",
                                   {ReadOutcome(store, "bronze_crypto", up1)}, {})
                          \cup Surfaced("bronze_fx",
                                        {ReadOutcome(store, "bronze_fx", up2)}, {}),
                      !.used = ReadUse(store, "bronze_crypto", up1)
                               \cup ReadUse(store, "bronze_fx", up2)]
         IN IF df_crypto.none
            THEN /\ pc' = "done"
                 /\ mem' = NoMem
                 /\ run' = [r EXCEPT !.end = "exit0"]
            ELSE /\ pc' = "silver_crypto"
                 /\ mem' = [NoMem EXCEPT !.df_crypto = df_crypto, !.df_fx = df_fx]
                 /\ run' = r
    /\ last' = NoLast
    /\ UNCHANGED <<deploy, focus, minio, faulty, columns, store>>

\* the rows the silver crypto step appends, given the bronze frame and the
\* frame read from the silver table
SilverCryptoBatch(df_crypto, df_silver_prev) ==
    SilverClean(IncrementalFilter(df_crypto, df_silver_prev))

\* "TRANSFORMACIONES SILVER - CRYPTO" up to "GUARDAR SILVER - crypto"
SilverCryptoStep(st, df_crypto, upRead, upWrite, localUp) ==
    LET df_silver_prev == safe_read_delta(st, "silver_crypto", upRead)
        df == SilverCryptoBatch(df_crypto, df_silver_prev)
    IN [store |-> write_delta(st, "silver_crypto", df, "append", upWrite, localUp),
        df |-> df]

SilverCrypto ==
    /\ deploy = "tp" /\ pc = "silver_crypto"
    /\ \E upRead \in Up, upWrite \in Up, localUp \in Up :
         LET r == SilverCryptoStep(store, mem.df_crypto.rows, upRead, upWrite, localUp)
         IN /\ store' = r.store
            /\ mem' = [mem EXCEPT !.df = Frame(r.df)]
            /\ run' = [run EXCEPT
                  !.ran = @ \cup {"silver_crypto"},
                  !.failed = @ \cup
                      Fails("silver_crypto", ReadFails(upRead),
                            WriteFails(upWrite, localUp)),
                  !.surfaced = @ \cup
                      Surfaced("silver_crypto",
                               {ReadOutcome(store, "silver_crypto", upRead)},
                               {WriteOutcome(upWrite, localUp)}),
                  !.used = @ \cup ReadUse(store, "silver_crypto", upRead)
                             \cup WriteUse("silver_crypto", upWrite, localUp)]
    /\ pc' = "silver_fx"
    /\ UNCHANGED <<deploy, focus, minio, faulty, columns, last, runs>>

\* "SILVER - FX LIMPIO": only when the bronze FX table was read
SilverFxStep(st, df_fx, up, localUp) ==
    IF df_fx.none THEN [store |-> st, df_fx_s |-> None]
    ELSE LET df_fx_s == DropDuplicateFx(df_fx.rows)
         IN [store |-> write_delta(st, "silver_fx", df_fx_s, "append", up, localUp),
             df_fx_s |-> Frame(df_fx_s)]

SilverFx ==
    /\ deploy = "tp" /\ pc = "silver_fx"
    /\ \E up \in Up, localUp \in Up :
         LET r == SilverFxStep(store, mem.df_fx, up, localUp)
         IN /\ store' = r.store
            /\ mem' = [mem EXCEPT !.df_fx_s = r.df_fx_s]
            /\ run' = IF mem.df_fx.none THEN run
                      ELSE [run EXCEPT
                              !.ran = @ \cup {"silver_fx"},
                              !.failed = @ \cup
                                  Fails("silver_fx", FALSE, WriteFails(up, localUp)),
                              !.surfaced = @ \cup
                                  Surfaced("silver_fx", {}, {WriteOutcome(up, localUp)}),
                              !.used = @ \cup WriteUse("silver_fx", up, localUp)]
    /\ pc' = "gold_crypto"
    /\ UNCHANGED <<deploy, focus, minio, faulty, columns, last, runs>>

\* a gold step that summarises the silver table as it stood before this
\* run's append; C15 does not hold of it
GoldCryptoStepStale(st, upRead, upWrite, localUp) ==
    LET df_silver_crypto == safe_read_delta(st, "silver_crypto", upRead)
        before == to_pandas(BagOfSeq(df_silver_crypto.rows) (-) BagOfSeq(mem.df.rows))
    IN IF df_silver_crypto.none THEN [store |-> st, raised |-> TRUE]
       ELSE [store |-> write_delta(st, "gold_crypto", GoldCrypto(before), "append",
                                   upWrite, localUp),
             raised |-> FALSE]

\* "GOLD - Resumen mensual crypto": the silver table is read back; the
\* groupby on a None result raises
GoldCryptoStep(st, upRead, upWrite, localUp) ==
    LET df_silver_crypto == safe_read_delta(st, "silver_crypto", upRead)
        df_gold_crypto == GoldCrypto(df_silver_crypto.rows)
    IN IF df_silver_crypto.none THEN [store |-> st, raised |-> TRUE]
       ELSE [store |-> write_delta(st, "gold_crypto", df_gold_crypto, "append",
                                   upWrite, localUp),
             raised |-> FALSE]

GoldCryptoTable ==
    /\ deploy = "tp" /\ pc = "gold_crypto"
    /\ \E upRead \in Up, upWrite \in Up, localUp \in Up :
         LET r == GoldCryptoStep(store, upRead, upWrite, localUp)
         IN /\ store' = r.store
            /\ IF r.raised
               THEN /\ pc' = "done"
                    /\ mem' = NoMem
                    /\ run' = [run EXCEPT
                          !.end = "crash",
                          !.failed = @ \cup
                              Fails("silver_crypto", ReadFails(upRead), FALSE)]
               ELSE /\ pc' = "gold_fx"
                    /\ mem' = mem
                    /\ run' = [run EXCEPT
                          !.ran = @ \cup {"gold_crypto"},
                          !.failed = @ \cup
                              Fails("silver_crypto", ReadFails(upRead), FALSE)
                              \cup Fails("gold_crypto", FALSE,
                                         WriteFails(upWrite, localUp)),
                          !.surfaced = @ \cup
                              Surfaced("gold_crypto",
                                       {ReadOutcome(store, "silver_crypto", upRead)},
                                       {WriteOutcome(upWrite, localUp)}),
                          !.used = @ \cup ReadUse(store, "silver_crypto", upRead)
                                     \cup WriteUse("gold_crypto", upWrite, localUp)]
    /\ UNCHANGED <<deploy, focus, minio, faulty, columns, last, runs>>

\* "GOLD - Ultimo valor FX": only when the silver FX frame was built
GoldFxStep(st, df_fx_s, up, localUp) ==
    IF df_fx_s.none THEN st
    ELSE write_delta(st, "gold_fx", DropDuplicateRows(Tail1(df_fx_s.rows)),
                     "append", up, localUp)

GoldFxTable ==
    /\ deploy = "tp" /\ pc = "gold_fx"
    /\ \E up \in Up, localUp \in Up :
         /\ store' = GoldFxStep(store, mem.df_fx_s, up, localUp)
         /\ run' = IF mem.df_fx_s.none THEN [run EXCEPT !.end = "ok"]
                   ELSE [run EXCEPT
                           !.ran = @ \cup {"gold_fx"},
                           !.end = "ok",
                           !.failed = @ \cup
                               Fails("gold_fx", FALSE, WriteFails(up, localUp)),
                           !.surfaced = @ \cup
                               Surfaced("gold_fx", {}, {WriteOutcome(up, localUp)}),
                           !.used = @ \cup WriteUse("gold_fx", up, localUp)]
    /\ pc' = "done"
    /\ mem' = NoMem
    /\ UNCHANGED <<deploy, focus, minio, faulty, columns, last, runs>>

(***************************************************************************)
(* main.py: "CAPA SILVER" and "CAPA GOLD", each block in its own           *)
(* try/except Exception                                                    *)
(***************************************************************************)
\* main.py: dynamic endpoint
MainCrypto ==
    /\ deploy = "main" /\ pc = "idle" /\ runs < MaxRuns
    /\ runs' = runs + 1
    /\ \E resp \in CryptoResponses, up \in Up :
         CryptoStep(resp, "main_fx", "main", up)
    /\ mem' = NoMem
    /\ UNCHANGED <<deploy, focus, minio, faulty, columns>>

\* main.py: static endpoint
MainFx ==
    /\ deploy = "main" /\ pc = "main_fx"
    /\ \E resp \in FxResponses, up \in Up : FxStep(resp, "main_silver_crypto", up)
    /\ UNCHANGED <<deploy, focus, minio, faulty, columns, mem, runs>>

\* df_crypto_bronze.dropna() then close > 0
MainSilverClean(rows) ==
    SelectSeq(rows, LAMBDA r : r.datetime # NaT /\ r.close # NaN /\ r.close > 0)

\* "Limpieza de cripto": DeltaTable raises on a missing bronze table and the
\* except prints; df_crypto_silver then stays undefined
MainSilverCrypto ==
    /\ deploy = "main" /\ pc = "main_silver_crypto"
    /\ LET bronze == store[Backend]["bronze_crypto"]
           df_crypto_silver == MainSilverClean(to_pandas(bronze.rows))
           w == WriteDeltalake(store[Backend]["silver_crypto"], df_crypto_silver,
                               "overwrite")
       IN IF bronze.exists
          THEN /\ store' = SetTable(store, Backend, "silver_crypto", w.table)
               /\ mem' = [mem EXCEPT !.df = Frame(df_crypto_silver)]
               /\ run' = [run EXCEPT !.ran = @ \cup {"silver_crypto"}]
          ELSE UNCHANGED <<store, mem, run>>
    /\ pc' = "main_silver_fx"
    /\ UNCHANGED <<deploy, focus, minio, faulty, columns, last, runs>>

\* "Limpieza de tipo de cambio"
MainSilverFx ==
    /\ deploy = "main" /\ pc = "main_silver_fx"
    /\ LET bronze == store[Backend]["bronze_fx"]
           df_fx_silver == to_pandas(bronze.rows)
           w == WriteDeltalake(store[Backend]["silver_fx"], df_fx_silver, "overwrite")
       IN IF bronze.exists
          THEN /\ store' = SetTable(store, Backend, "silver_fx", w.table)
               /\ mem' = [mem EXCEPT !.df_fx_s = Frame(df_fx_silver)]
               /\ run' = [run EXCEPT !.ran = @ \cup {"silver_fx"}]
          ELSE UNCHANGED <<store, mem, run>>
    /\ pc' = "main_gold_crypto"
    /\ UNCHANGED <<deploy, focus, minio, faulty, columns, last, runs>>

\* the month column main.py derives from the date column
WithMonth(rows) ==
    [i \in 1 .. Len(rows) |->
       [datetime |-> rows[i].datetime, close |-> rows[i].close,
        month |-> Month(rows[i].datetime)]]

\* gold crypto: computed from the dataframe df_crypto_silver still in
\* memory; an undefined df_crypto_silver raises NameError, which is caught
MainGoldCrypto ==
    /\ deploy = "main" /\ pc = "main_gold_crypto"
    /\ LET df_crypto_gold == GoldCrypto(WithMonth(mem.df.rows))
           w == WriteDeltalake(store[Backend]["gold_crypto"], df_crypto_gold,
                               "overwrite")
       IN IF ~mem.df.none
          THEN /\ store' = SetTable(store, Backend, "gold_crypto", w.table)
               /\ run' = [run EXCEPT !.ran = @ \cup {"gold_crypto"}]
          ELSE UNCHANGED <<store, run>>
    /\ pc' = "main_gold_fx"
    /\ UNCHANGED <<deploy, focus, minio, faulty, columns, mem, last, runs>>

\* gold FX: sort_values("last_refreshed", ascending=False).head(1)
MainGoldFx ==
    /\ deploy = "main" /\ pc = "main_gold_fx"
    /\ LET df_fx_gold == Tail1(mem.df_fx_s.rows)
           w == WriteDeltalake(store[Backend]["gold_fx"], df_fx_gold, "overwrite")
       IN IF ~mem.df_fx_s.none
          THEN /\ store' = SetTable(store, Backend, "gold_fx", w.table)
               /\ run' = [run EXCEPT !.ran = @ \cup {"gold_fx"}, !.end = "ok"]
          ELSE /\ run' = [run EXCEPT !.end = "ok"]
               /\ UNCHANGED store
    /\ pc' = "done"
    /\ mem' = NoMem
    /\ UNCHANGED <<deploy, focus, minio, faulty, columns, last, runs>>

\* the script's process ends; nothing of it but the tables is left
Exit ==
    /\ pc = "done"
    /\ pc' = "idle"
    /\ mem' = NoMem
    /\ run' = NoRun
    /\ last' = NoLast
    /\ UNCHANGED <<deploy, focus, minio, faulty, columns, store, runs>>

Next ==
    \/ IngestCrypto
    \/ IngestFx
    \/ ReadBronze
    \/ SilverCrypto
    \/ SilverFx
    \/ GoldCryptoTable
    \/ GoldFxTable
    \/ Exit

Spec == Init /\ [][Next]_vars

NextMain ==
    \/ MainCrypto
    \/ MainFx
    \/ MainSilverCrypto
    \/ MainSilverFx
    \/ MainGoldCrypto
    \/ MainGoldFx
    \/ Exit

\* the "tp" deployment with storage calls that may fail
InitFaulty ==
    /\ deploy = "tp"
    /\ focus \in {"crypto", "fx"}
    /\ minio \in BOOLEAN
    /\ faulty = TRUE
    /\ store = [b \in Backends |-> [t \in Tables |-> ABSENT]]
    /\ pc = "idle"
    /\ mem = NoMem
    /\ run = NoRun
    /\ last = NoLast
    /\ runs = 0
    /\ columns = NoColumns

SpecFaulty == InitFaulty /\ [][Next]_vars

SpecMain == InitMain /\ [][NextMain]_vars

(***************************************************************************)
(* transformations.py stopped between two of its writes                    *)
(***************************************************************************)
\* the positions between two write_delta calls
BetweenWrites == {"silver_fx", "gold_crypto", "gold_fx"}

\* the process is killed: the tables stay as the writes so far left them
Interrupt ==
    /\ deploy = "tp" /\ pc \in BetweenWrites
    /\ pc' = "idle"
    /\ mem' = NoMem
    /\ run' = [run EXCEPT !.end = "interrupted"]
    /\ last' = NoLast
    /\ UNCHANGED <<deploy, focus, minio, faulty, columns, store, runs>>

NextInterrupt ==
    \/ Next
    \/ Interrupt

SpecInterrupt == Init /\ [][NextInterrupt]_vars

(***************************************************************************)
(* The two column disambiguations as functions of the names they are given *)
(***************************************************************************)
\* any sequence of at most MaxCols names, repeated or not
InitColumns ==
    /\ deploy = "tp"
    /\ focus = "fx"
    /\ minio = FALSE
    /\ faulty = FALSE
    /\ store = [b \in Backends |-> [t \in Tables |-> ABSENT]]
    /\ pc = "ing_fx"
    /\ mem = NoMem
    /\ run = NewRun("ingestion")
    /\ last = NoLast
    /\ runs = 0
    /\ \E names \in UNION {[1 .. k -> Words] : k \in 0 .. MaxCols} :
         columns = [names |-> names, output |-> <<>>, by |-> "none"]

\* build_static_table renames the keys of the rate object
BuildStaticColumns ==
    /\ columns.by = "none"
    /\ LET keys == [i \in 1 .. Len(columns.names) |-> RawKey(i, columns.names[i])]
       IN columns' = [names |-> [i \in 1 .. Len(keys) |-> ColName(keys[i])],
                      output |-> new_columns(keys, {}),
                      by |-> "build_static_table"]
    /\ UNCHANGED <<deploy, focus, minio, faulty, store, pc, mem, run, last, runs>>

\* remove_duplicate_columns renames the columns of a dataframe
RemoveDuplicateColumns ==
    /\ columns.by = "none"
    /\ columns' = [columns EXCEPT
                      !.output = remove_duplicate_columns(columns.names, {}),
                      !.by = "remove_duplicate_columns"]
    /\ UNCHANGED <<deploy, focus, minio, faulty, store, pc, mem, run, last, runs>>

NextColumns ==
    \/ BuildStaticColumns
    \/ RemoveDuplicateColumns

SpecColumns == InitColumns /\ [][NextColumns]_vars

(***************************************************************************)
(* Properties of the bronze layer                                          *)
(***************************************************************************)
Bronze == store[Backend]["bronze_crypto"]

BronzeFx == store[Backend]["bronze_fx"]

Series(p) == [kind |-> "series", rows |-> p]

\* the dataframes the scripts hand to their upsert, for every series the
\* endpoint can return
TpBatches == {CleanDynamic(build_dynamic_table(Series(p)).rows) : p \in SeriesPayloads}

MainBatches == {build_dynamic_table(Series(p)).rows : p \in SeriesPayloads}

Batches == IF deploy = "tp" THEN TpBatches ELSE MainBatches

\* the upsert of the deployed script
Upsert(table, df) ==
    IF deploy = "tp" THEN CryptoUpsertTp(table, df) ELSE CryptoUpsertMain(table, df)

\* a state between two runs, in a behaviour whose daily series vary
AtRest == pc = "idle" /\ focus = "crypto"

Keys(df) == {df[i].datetime : i \in 1 .. Len(df)} \ {NaT}

TableKeys(table) == {r.datetime : r \in DOMAIN table.rows} \ {NaT}

RowsAt(table, k) ==
    [r \in {x \in DOMAIN table.rows : x.datetime = k} |-> table.rows[r]]

RowOf(df, k) == df[CHOOSE i \in 1 .. Len(df) : df[i].datetime = k]

One(r) == SetToBag({r})

NullRows(df) == SelectSeq(df, LAMBDA r : r.datetime = NaT)

\* C1: UPSERT idempotence.  For the bronze crypto table of every state
\* between two runs, ABSENT or populated, and every batch the deployed script
\* can hand to its upsert, the table after upserting the batch twice in a
\* row equals the table after upserting it once.
C1_UpsertIdempotent ==
    AtRest =>
        \A df \in Batches :
            LET first == Upsert(Bronze, df).table
            IN Upsert(first, df).table = first

\* C1: main.py has stored the same null-keyed row twice
C1_NullRowStoredTwice ==
    /\ deploy = "main"
    /\ \E r \in DOMAIN Bronze.rows : r.datetime = NaT /\ Bronze.rows[r] >= 2

\* C4: UPSERT correctness on a populated table.  After the merge of a batch
\* into the populated bronze crypto table: a key of both the table and the
\* batch holds exactly the incoming row; a key of the table alone keeps its
\* rows; a key of the batch alone holds exactly the incoming row; and no key
\* nor any null-keyed row of the table is lost.
C4_UpsertCorrect ==
    (AtRest /\ Bronze.exists) =>
        \A df \in Batches :
            LET post == DeltaMerge(Bronze, df)
            IN /\ Upsert(Bronze, df).table = post
               /\ upsert_data_as_delta(Bronze, df).table = post
               /\ \A k \in Dates :
                    /\ (k \in TableKeys(Bronze) /\ k \in Keys(df))
                          => RowsAt(post, k) = One(RowOf(df, k))
                    /\ (k \in TableKeys(Bronze) /\ k \notin Keys(df))
                          => RowsAt(post, k) = RowsAt(Bronze, k)
                    /\ (k \notin TableKeys(Bronze) /\ k \in Keys(df))
                          => RowsAt(post, k) = One(RowOf(df, k))
                    /\ (k \notin TableKeys(Bronze) /\ k \notin Keys(df))
                          => RowsAt(post, k) = EmptyBag
               /\ TableKeys(Bronze) \subseteq TableKeys(post)
               /\ NaTRows(Bronze) \sqsubseteq NaTRows(post)

\* C4: a populated table that a merge has updated (the silver table still
\* holds the close the key had before), with a batch that changes a stored
\* key and a batch that brings a new key and leaves a stored key alone
C4_MergeCases ==
    /\ AtRest /\ Bronze.exists
    /\ \E b \in DOMAIN Bronze.rows :
         \E r \in DOMAIN store[Backend]["silver_crypto"].rows :
            r.datetime = b.datetime /\ r.close # b.close
    /\ \E df \in Batches : \E k \in TableKeys(Bronze) \cap Keys(df) :
           RowsAt(Bronze, k) # One(RowOf(df, k))
    /\ \E df \in Batches :
           /\ Keys(df) \ TableKeys(Bronze) # {}
           /\ TableKeys(Bronze) \ Keys(df) # {}

C5_Bootstrap ==
    /\ last.op = "bootstrap" =>
          /\ last.calls = <<"overwrite">>
          /\ run.end # "crash"
          /\ Bronze.exists
    /\ (AtRest /\ ~Bronze.exists) =>
          \A df \in Batches :
              LET u == Upsert(Bronze, df)
              IN /\ u.calls = <<"overwrite">>
                 /\ ~u.raised
                 /\ u.table = Populated(df)

\* C5: main.py has bootstrapped the table with an overwrite and a second
\* write, and the script ended there with an exception
C5_SecondWrite ==
    /\ deploy = "main"
    /\ last = [op |-> "bootstrap", calls |-> <<"overwrite", "merge">>]
    /\ run.end = "crash"
    /\ Bronze.exists

\* C8: OVERWRITE.  Every write of the exchange rate leaves the bronze FX
\* table holding exactly the incoming row, whatever the table held before.
C8_Overwrite ==
    /\ last.op = "overwrite" =>
          BronzeFx.exists /\ BagCardinality(BronzeFx.rows) = 1
    /\ pc = "ing_fx" =>
          \A resp \in FxResponses :
              LET built == build_static_table(resp)
                  w == save_data_as_delta(BronzeFx, built.rows, "overwrite")
              IN ~built.none =>
                    /\ ~w.raised
                    /\ w.table = Populated(built.rows)
                    /\ BagCardinality(w.table.rows) = 1

\* C8: the rate was just overwritten, and the silver FX table still holds
\* the rate the bronze table held before
C8_RateReplaced ==
    /\ last.op = "overwrite"
    /\ \E r \in DOMAIN store[Backend]["silver_fx"].rows : r \notin DOMAIN BronzeFx.rows

(***************************************************************************)
(* Properties of transformations.py                                        *)
(***************************************************************************)
Silver == store[Backend]["silver_crypto"]

\* one whole run of transformations.py from the tables st, every storage
\* call answering; st itself when the script stops before its first write
TransformRun(st) ==
    LET df_crypto == safe_read_delta(st, "bronze_crypto", TRUE)
        df_fx == safe_read_delta(st, "bronze_fx", TRUE)
        s1 == SilverCryptoStep(st, df_crypto.rows, TRUE, TRUE, TRUE)
        s2 == SilverFxStep(s1.store, df_fx, TRUE, TRUE)
        s3 == GoldCryptoStep(s2.store, TRUE, TRUE, TRUE)
    IN IF df_crypto.none THEN st
       ELSE IF s3.raised THEN s3.store
       ELSE GoldFxStep(s3.store, s2.df_fx_s, TRUE, TRUE)

\* C2: INCREMENTAL_APPEND idempotence.  Right after the silver crypto step,
\* running the step again on the same bronze rows filters every row out
\* and leaves the silver crypto table as the first run left it.
C2_IncrementalIdempotent ==
    pc = "silver_fx" =>
        LET prev == safe_read_delta(store, "silver_crypto", TRUE)
            again == SilverCryptoStep(store, mem.df_crypto.rows, TRUE, TRUE, TRUE)
        IN /\ ~prev.none
           /\ IncrementalFilter(mem.df_crypto.rows, prev) = <<>>
           /\ again.df = <<>>
           /\ again.store = store

\* C2: the step has just appended rows to a silver table that already held
\* rows of an earlier run
C2_AppendedIncrementally ==
    /\ pc = "silver_fx"
    /\ mem.df.rows # <<>>
    /\ BagCardinality(Silver.rows) > Len(mem.df.rows)

\* C3: whole-run idempotence on unchanged data.  When a run of
\* transformations.py has ended normally, a second run on the same bronze
\* tables leaves the four downstream tables as they are.
C3_RunIdempotent ==
    (pc = "done" /\ run.script = "transformations" /\ run.end = "ok") =>
        TransformRun(store) = store

\* C3: the gold crypto table holds the same monthly row twice
C3_GoldRowTwice ==
    \E r \in DOMAIN store[Backend]["gold_crypto"].rows :
        store[Backend]["gold_crypto"].rows[r] >= 2

\* C6: INCREMENTAL_APPEND monotonicity.  With W the maximum datetime of the
\* silver crypto table before the step, the step keeps every row of the
\* table as it is and appends only rows of the bronze frame whose datetime
\* is greater than W: no row dated W or earlier is added or changed.
C6_Monotone ==
    [][(pc = "silver_crypto" /\ pc' = "silver_fx" /\ Silver.exists) =>
          LET W == MaxDatetime(to_pandas(Silver.rows))
              appended == Silver'.rows (-) Silver.rows
          IN /\ Silver.rows \sqsubseteq Silver'.rows
             /\ appended = BagOfSeq(mem'.df.rows)
             /\ \A r \in DOMAIN appended :
                   /\ W # NaT /\ r.datetime > W
                   /\ \E i \in 1 .. Len(mem.df_crypto.rows) :
                         /\ mem.df_crypto.rows[i].datetime = r.datetime
                         /\ mem.df_crypto.rows[i].close = r.close
             /\ \A r \in DOMAIN Silver'.rows :
                   (W # NaT /\ r.datetime <= W) =>
                       /\ r \in DOMAIN Silver.rows
                       /\ Silver'.rows[r] = Silver.rows[r]]_vars

\* C6: the step has appended a newer row and has left alone a stored row
\* whose date the bronze frame now carries with another close
C6_StaleRowKept ==
    /\ pc = "silver_fx"
    /\ mem.df.rows # <<>>
    /\ \E r \in DOMAIN Silver.rows :
         \E i \in 1 .. Len(mem.df_crypto.rows) :
            /\ mem.df_crypto.rows[i].datetime = r.datetime
            /\ mem.df_crypto.rows[i].close # r.close

\* C10: a missing upstream input is not fatal.  A run of transformations.py
\* that found the bronze FX table ends normally and has executed the FX
\* silver and FX gold transforms, whether or not the crypto tables exist.
C10_MissingInputNotFatal ==
    (pc = "done" /\ run.script = "transformations" /\ BronzeFx.exists) =>
        /\ run.end = "ok"
        /\ {"silver_fx", "gold_fx"} \subseteq run.ran

\* C10: the run stopped at exit(0) although the bronze FX table exists
C10_StoppedAtExit ==
    /\ pc = "done" /\ run.script = "transformations"
    /\ run.end = "exit0" /\ run.ran = {}
    /\ BronzeFx.exists /\ ~Bronze.exists

(***************************************************************************)
(* The silver crypto step as a function of the frame it reads: the bronze  *)
(* frame is any sequence of valid rows, dates repeated or not, and the     *)
(* silver table is absent or holds one row                                 *)
(***************************************************************************)
ValidRows == [datetime : Dates, close : ValidCloses]

SeqsUpTo(S, n) == UNION {[1 .. k -> S] : k \in 0 .. n}

SilverRow(d) == [datetime |-> d, close |-> 1, month |-> Month(d)]

InitClean ==
    /\ deploy = "tp"
    /\ focus = "crypto"
    /\ minio \in BOOLEAN
    /\ faulty = FALSE
    /\ \E s \in SeqsUpTo(ValidRows, MaxLen), w \in {NaT} \cup Dates :
         /\ store = [b \in Backends |-> [t \in Tables |->
               IF b # Backend THEN ABSENT
               ELSE IF t = "bronze_crypto" THEN Populated(s)
               ELSE IF t = "silver_crypto" /\ w # NaT THEN Populated(<<SilverRow(w)>>)
               ELSE ABSENT]]
         /\ mem = [NoMem EXCEPT !.df_crypto = Frame(s)]
    /\ pc = "silver_crypto"
    /\ run = NewRun("transformations")
    /\ last = NoLast
    /\ runs = 1
    /\ columns = NoColumns

NextClean == SilverCrypto

SpecClean == InitClean /\ [][NextClean]_vars

\* the last row of a frame that carries the date d
LastOf(df, d) ==
    df[CHOOSE i \in 1 .. Len(df) :
          /\ df[i].datetime = d
          /\ \A j \in (i + 1) .. Len(df) : df[j].datetime # d]

C11_FailureIsolated ==
    (pc = "done" /\ run.failed # {}) => run.end = "ok"

\* C11: ingestion.py stopped at a storage failure of the daily series and
\* never reached the exchange-rate block
C11_IngestionAborted ==
    /\ pc = "done" /\ run.script = "ingestion" /\ run.end = "crash"
    /\ run.failed = {Fail("bronze_crypto", "write")}
    /\ "bronze_fx" \notin run.ran

\* C12: a storage failure is never swallowed.  Every read or write of
\* transformations.py that failed gave its caller an outcome other than the
\* helper's normal returns.
C12_FailureSurfaced ==
    run.script = "transformations" => run.failed \subseteq run.surfaced

\* C12: a write of the silver crypto rows failed on every backend, the run
\* ended normally and nothing told the script
C12_WriteLostSilently ==
    /\ pc = "done" /\ run.script = "transformations" /\ run.end = "ok"
    /\ Fail("silver_crypto", "write") \in run.failed
    /\ run.surfaced = {}
    /\ \A u \in run.used : ~(u.table = "silver_crypto" /\ u.op = "write")

\* C13: only an ABSENT table triggers the bootstrap path.  A silver crypto
\* step whose read of the existing silver table in the bucket failed leaves
\* every table as it was.
C13_ReadFailureNoBootstrap ==
    [][(/\ pc = "silver_crypto" /\ pc' = "silver_fx"
        /\ store["remote"]["silver_crypto"].exists
        /\ Fail("silver_crypto", "read") \in run'.failed)
          => store' = store]_vars

\* C13: after a failed read the step appended a row the table already held
C13_HistoryReappended ==
    /\ pc = "silver_fx"
    /\ Fail("silver_crypto", "read") \in run.failed
    /\ \E r \in DOMAIN store["remote"]["silver_crypto"].rows :
          /\ store["remote"]["silver_crypto"].rows[r] >= 2
          /\ \E i \in 1 .. Len(mem.df.rows) : mem.df.rows[i] = r

\* C17: no duplicate rows in the silver crypto table.  On every backend the
\* table holds at most one row per datetime.
C17_OneRowPerDatetime ==
    \A b \in Backends :
        LET rows == store[b]["silver_crypto"].rows
        IN \A r1, r2 \in DOMAIN rows :
              /\ rows[r1] = 1
              /\ (r1.datetime = r2.datetime => r1 = r2)

\* C17: the silver crypto table of the bucket holds two rows of one date
C17_SilverDuplicate ==
    /\ pc = "idle"
    /\ BagCardinality(store["remote"]["silver_crypto"].rows)
          > Cardinality({r.datetime : r \in DOMAIN store["remote"]["silver_crypto"].rows})

\* C20: a single storage backend per run.  All reads and writes of a run of
\* transformations.py that reached a table used the same backend.
C20_SingleBackend ==
    \A u1, u2 \in run.used : u1.backend = u2.backend

\* C20: the silver crypto step read the local table and wrote the bucket
C20_ReadLocalWriteRemote ==
    /\ [table |-> "silver_crypto", op |-> "read", backend |-> "local"] \in run.used
    /\ [table |-> "silver_crypto", op |-> "write", backend |-> "remote"] \in run.used

(***************************************************************************)
(* Properties of the upstream responses                                    *)
(***************************************************************************)
\* C14: a response without the expected key ("Time Series ..." for the
\* daily endpoint, "Realtime Currency Exchange Rate" for the rate
\* endpoint) is treated as no data: the block is skipped, the script does
\* not raise and goes on with the next dataset.
C14_MissingKeySkipped == last.op = "nokey" => run.end # "crash"

\* ingestion.py got a daily-series response without the key and ended
\* there: the exchange-rate block was never reached
C14_CrashOnMissingKey ==
    /\ pc = "done"
    /\ last.op = "nokey"
    /\ run.script = "ingestion"
    /\ run.end = "crash"
    /\ run.ran = {}

(***************************************************************************)
(* Properties of the order of the layers                                   *)
(***************************************************************************)
Gold == store[Backend]["gold_crypto"]

\* C15: layer ordering within one run of transformations.py.  When the gold
\* crypto step runs, the silver crypto step of the same run has already
\* run and the rows it appended are in the silver table; the monthly
\* summary the step appends to the gold table is the summary of that
\* silver table, which the step leaves as it is.
C15_GoldAfterSilver ==
    [][(pc = "gold_crypto" /\ pc' = "gold_fx") =>
          /\ "silver_crypto" \in run.ran
          /\ BagOfSeq(mem.df.rows) \sqsubseteq Silver.rows
          /\ Gold'.rows = Gold.rows (+) BagOfSeq(GoldCrypto(to_pandas(Silver.rows)))
          /\ Silver' = Silver]_vars

\* C15: the gold step has run in a run whose silver step appended rows to a
\* silver table that already held rows, and the summary of the table
\* before the append is not the summary of the table after it
C15_SummaryOfNewSilver ==
    /\ pc = "gold_fx"
    /\ mem.df.rows # <<>>
    /\ LET before == to_pandas(Silver.rows (-) BagOfSeq(mem.df.rows))
       IN /\ before # <<>>
          /\ GoldCrypto(before) # GoldCrypto(to_pandas(Silver.rows))
          /\ BagOfSeq(GoldCrypto(to_pandas(Silver.rows))) \sqsubseteq Gold.rows

(***************************************************************************)
(* Properties of the column names                                          *)
(***************************************************************************)
IsPrefix(p, q) == Len(p) <= Len(q) /\ \A i \in 1 .. Len(p) : q[i] = p[i]

\* no two columns share a name
UniqueNames(cols) ==
    \A i, j \in 1 .. Len(cols) : cols[i] = cols[j] => i = j

\* column i keeps its place and its base name, with or without a suffix,
\* and the first column of a name keeps the name as it is
KeepsNames(names, output) ==
    /\ Len(output) = Len(names)
    /\ \A i \in 1 .. Len(names) :
          /\ IsPrefix(names[i], output[i])
          /\ (\A j \in 1 .. (i - 1) : names[j] # names[i]) => output[i] = names[i]

\* C16: whatever the names, repeated three times or equal to a suffixed
\* name, the columns that remove_duplicate_columns and the loop of
\* build_static_table return carry pairwise different names, in the order
\* of the input, the first column of each name keeping it.
C16_NamesDisambiguated ==
    columns.by # "none" =>
        /\ UniqueNames(columns.output)
        /\ KeepsNames(columns.names, columns.output)

\* C16: remove_duplicate_columns was given the same name three times and
\* returned "a_dup" twice
C16_DupSuffixTwice ==
    /\ columns.by = "remove_duplicate_columns"
    /\ columns.names = <<<<"a">>, <<"a">>, <<"a">>>>
    /\ columns.output = <<<<"a">>, <<"a", "dup">>, <<"a", "dup">>>>

(***************************************************************************)
(* Properties of the gold layer                                            *)
(***************************************************************************)
\* C19: after any number of runs of transformations.py the gold crypto
\* monthly summary holds at most one row per month.
C19_OneRowPerMonth ==
    \A r1, r2 \in DOMAIN Gold.rows :
        /\ Gold.rows[r1] = 1
        /\ (r1.month = r2.month => r1 = r2)

\* C19: between two runs the gold table holds two different summaries of
\* one month, an older one and the one of the latest run
C19_MonthSummarisedTwice ==
    /\ pc = "idle"
    /\ \E r1, r2 \in DOMAIN Gold.rows :
          /\ r1.month = r2.month
          /\ r1 # r2
          /\ r2 \in Range(GoldCrypto(to_pandas(Silver.rows)))

(***************************************************************************)
(* Properties of an interrupted run                                        *)
(***************************************************************************)
\* the tables at the end of the run, had it gone on from position p with
\* the dataframes m
Finish(st, m, p) ==
    LET s2 == IF p = "silver_fx" THEN SilverFxStep(st, m.df_fx, TRUE, TRUE)
              ELSE [store |-> st, df_fx_s |-> m.df_fx_s]
        s3 == IF p \in {"silver_fx", "gold_crypto"}
              THEN GoldCryptoStep(s2.store, TRUE, TRUE, TRUE)
              ELSE [store |-> s2.store, raised |-> FALSE]
    IN IF s3.raised THEN s3.store
       ELSE GoldFxStep(s3.store, s2.df_fx_s, TRUE, TRUE)

\* C18: re-runnability after interruption.  When transformations.py is
\* stopped between two writes, every table it has written is as the
\* complete run would have left it, and a complete run started afterwards
\* on the same bronze tables ends with the tables the uninterrupted run
\* would have ended with.
C18_RerunAfterInterrupt ==
    [][(pc \in BetweenWrites /\ pc' = "idle") =>
          /\ \A t \in run.ran :
                store'[Backend][t] = Finish(store, mem, pc)[Backend][t]
          /\ TransformRun(store') = Finish(store, mem, pc)]_vars

\* C18: the run was stopped after its gold crypto append, and a complete
\* run from here appends the same monthly summary again
C18_InterruptedAfterGold ==
    /\ pc = "idle"
    /\ run.end = "interrupted"
    /\ "gold_crypto" \in run.ran
    /\ \E r \in DOMAIN Gold.rows :
          /\ Gold.rows[r] = 1
          /\ TransformRun(store)[Backend]["gold_crypto"].rows[r] = 2

====
